---------------------------- MODULE Spec2Model ----------------------------
(***************************************************************************)
(* A model of furcate's configuration permutation engine (ConfigReader)    *)
(* and of its live-reload watcher (ConfigWatcher),                         *)
(* src/furcate/config_reader.py.                                           *)
(*                                                                         *)
(* Conventions.  A JSON document is an ordered mapping: it is modelled as  *)
(* a sequence of entries [key, value] in the dict's iteration order.  A    *)
(* value is [isList, vals]: a JSON array is isList = TRUE with its         *)
(* elements in vals, a scalar s is isList = FALSE with vals = <<s>>.       *)
(* Scalars are integers.  A RunConfig (a Python dict built by              *)
(* tmp[key] = value) is a function from the keys to scalars.  Python lists *)
(* are sequences; indices are 1-based here and 0-based in the source.      *)
(* An exception is modelled by the value the raising call produces         *)
(* (raised = TRUE) and by the state the object is left in.                 *)
(***************************************************************************)
EXTENDS Integers, Sequences, FiniteSets, TLC

VARIABLES
    data,             \* ConfigReader.data: the merged document
    exclude_configs,  \* ConfigReader.meta_data["exclude_configs"]
    run_configs,      \* ConfigReader.run_configs (the list's contents)
    run_configs_ref,  \* identity of the list object bound to run_configs
    permutable_keys,  \* ConfigReader.permutable_keys
    _generated,       \* ConfigReader._generated
    raised,           \* whether the last call raised
    stage,            \* position in the pipeline of gen_run_configs
    expanded,         \* history: what _gen_run_configs returned
    calls,            \* history: the number of calls made on the reader
    ret_ref,          \* history: the list gen_run_configs returned last
    last2             \* history: the last two calls of remove_completed_runs

engineVars == <<data, exclude_configs, run_configs, run_configs_ref,
                permutable_keys, _generated, raised, stage, expanded>>

historyVars == <<calls, ret_ref, last2>>

VARIABLES
    file_doc,         \* the configuration file: its content
    file_mtime,       \* the configuration file: os.path.getmtime
    run_data,         \* log_dir/run_data.csv: its rows, or NoFile
    readers,          \* the ConfigReader objects built so far, by identity
    config_reader,    \* ConfigWatcher.config_reader (the identity of a reader)
    flagged,          \* ConfigWatcher.flagged
    _mtime,           \* ConfigWatcher._mtime
    _running,         \* ConfigWatcher._running
    _config_lock,     \* ConfigWatcher._config_lock: its holder, or "free"
    _event,           \* ConfigWatcher._event: whether it is set
    main_pc,          \* the constructing thread's position
    pc,               \* the polling thread's position in run()
    consumer,         \* the reader threads: position and what each has seen
    edits,            \* history: the number of modifications of the file
    flag_sets,        \* history: the number of times line 255 has run
    flag_by,          \* history: the reader published by the reload that
                      \*          set the flag last
    last_compare      \* history: what line 245 found last

watcherVars == <<file_doc, file_mtime, run_data, readers, config_reader,
                 flagged, _mtime, _running, _config_lock, _event, main_pc, pc,
                 consumer, edits, flag_sets, flag_by, last_compare>>

vars == <<engineVars, historyVars, watcherVars>>

\* No watcher: the value of the watcher's variables in the specifications of
\* the reader alone.
NoWatcher ==
    /\ file_doc = 0 /\ file_mtime = 0 /\ run_data = <<>> /\ readers = <<>>
    /\ config_reader = 0 /\ flagged = FALSE /\ _mtime = 0 /\ _running = FALSE
    /\ _config_lock = "free" /\ _event = FALSE /\ main_pc = "none"
    /\ pc = "none" /\ consumer = <<>> /\ edits = 0 /\ flag_sets = 0
    /\ flag_by = 0 /\ last_compare = "none"

----------------------------------------------------------------------------
(* Bounds of the model. *)

\* Longest JSON array of a document.
MaxLen == 2

\* The scalar values documents, rules and history rows are built from.
Scalars == {8, 16}

\* The value of the "meta" key (a dict, never a list: line 115 binds it to
\* meta_data and line 194 subscripts it with "exclude_configs").
MetaValue == 0

\* The value of "data_name" (a string: line 80 concatenates it with ".train",
\* which raises for a list) and of the other keys that hold one scalar in
\* every document of the model.  The keys that the defaults add (lines 80-82
\* and 113) are further keys of this kind and are left out.
NameValue == 1

----------------------------------------------------------------------------
(* Sequences and dicts. *)

RECURSIVE SeqsUpTo(_, _)
\* Every sequence over S of length at most n.
SeqsUpTo(S, n) ==
    IF n = 0 THEN {<<>>}
    ELSE LET shorter == SeqsUpTo(S, n - 1)
         IN  shorter \cup {Append(s, e) : s \in {t \in shorter : Len(t) = n - 1}, e \in S}

Scalar(s) == [isList |-> FALSE, vals |-> <<s>>]

Array(seq) == [isList |-> TRUE, vals |-> seq]

\* dict[key] = value
Put(config, key, value) == (key :> value) @@ config

\* The empty dict.
EmptyDict == [k \in {} |-> 0]

\* The number of elements of seq equal to x.
Count(seq, x) == Cardinality({i \in 1..Len(seq) : seq[i] = x})

\* list.remove(x): the list without its first element equal to x.
ListRemove(seq, x) ==
    IF \E i \in 1..Len(seq) : seq[i] = x
    THEN LET first == CHOOSE i \in 1..Len(seq) :
                          seq[i] = x /\ \A j \in 1..(i - 1) : seq[j] # x
         IN  [j \in 1..(Len(seq) - 1) |-> IF j < first THEN seq[j] ELSE seq[j + 1]]
    ELSE seq

----------------------------------------------------------------------------
(* ConfigReader._gen_config_permutations and _gen_run_configs. *)

\* A plausible slip in line 134: only arrays with several elements count.
IsListOfSeveral(value) == value.isList /\ Len(value.vals) > 1

\* Line 134: isinstance(enumerated_data[index]["value"], list)
IsList(value) == value.isList

\* A plausible slip in the loop of line 141: the last element is not visited.
CandidateValuesButLast(value) ==
    IF value.isList /\ Len(value.vals) > 0
    THEN SubSeq(value.vals, 1, Len(value.vals) - 1)
    ELSE value.vals

\* A plausible slip in lines 134-138: an empty array is taken as a value of
\* its own (here -1) instead of as no candidate at all.
CandidateValuesOrSelf(value) ==
    IF value.isList /\ Len(value.vals) = 0 THEN <<-1>> ELSE value.vals

\* Lines 134-138: an array contributes its elements, a scalar itself.
CandidateValues(value) ==
    IF value.isList THEN value.vals ELSE <<value.vals[1]>>

RECURSIVE _gen_config_permutations(_, _, _, _)
\* The recursion of lines 117-148.  The set permutable_keys is an attribute
\* the recursion adds to, so it is threaded through: pk is its value on entry
\* and the result carries its value on return.
_gen_config_permutations(index, config, enumerated_data, pk) ==
    IF index > Len(enumerated_data)
    THEN [result |-> <<config>>, permutable_keys |-> pk]
    ELSE LET key    == enumerated_data[index].key
             isList == IsList(enumerated_data[index].value)
             values == CandidateValues(enumerated_data[index].value)
             pk1    == IF isList THEN pk \cup {key} ELSE pk
             \* the for loop of lines 141-146, after n iterations
             Loop[n \in 0..Len(values)] ==
                 IF n = 0
                 THEN [result |-> <<>>, permutable_keys |-> pk1]
                 ELSE LET sofar == Loop[n - 1]
                          sub   == _gen_config_permutations(
                                       index + 1,
                                       Put(config, key, values[n]),
                                       enumerated_data,
                                       sofar.permutable_keys)
                      IN  [result |-> sofar.result \o sub.result,
                           permutable_keys |-> sub.permutable_keys]
         IN  Loop[Len(values)]

\* Lines 150-162: enumerate the document's items in order and recurse from
\* the first one with an empty dict.
_gen_run_configs(d, pk) == _gen_config_permutations(1, EmptyDict, d, pk)

----------------------------------------------------------------------------
(* ConfigReader._exclude_configs.  A rule (a dict of exclude_configs) is a  *)
(* sequence of entries [key, value] in the dict's iteration order.          *)

RECURSIVE MatchRule(_, _, _)
\* Lines 200-204, from the i-th item of rule config on: "unmatched" at the
\* first item whose value differs, "KeyError" when run_config[key] is reached
\* for a key run_config lacks, "matched" when the items run out.
MatchRule(run_config, config, i) ==
    IF i > Len(config) THEN "matched"
    ELSE IF config[i].key \notin DOMAIN run_config THEN "KeyError"
    ELSE IF run_config[config[i].key] # config[i].value THEN "unmatched"
    ELSE MatchRule(run_config, config, i + 1)

RECURSIVE MatchAnyRule(_, _, _)
\* Lines 198-207, from the j-th rule on: the rules are tried in order and the
\* first that matches (or raises) ends the loop.
MatchAnyRule(run_config, rules, j) ==
    IF j > Len(rules) THEN "unmatched"
    ELSE LET m == MatchRule(run_config, rules[j], 1)
         IN  IF m = "unmatched" THEN MatchAnyRule(run_config, rules, j + 1) ELSE m

RECURSIVE RemoveEach(_, _, _)
\* Lines 217-218: for remove in to_remove: self.run_configs.remove(remove)
RemoveEach(queue, to_remove, i) ==
    IF i > Len(to_remove) THEN queue
    ELSE RemoveEach(ListRemove(queue, to_remove[i]), to_remove, i + 1)

\* A plausible slip in line 195: a queue of one entry is filtered too.
ExcludeGuardNonEmpty(rules, queue) == Len(rules) > 0 /\ Len(queue) > 0

\* Line 195: len(exclude_configs) > 0 and len(self.run_configs) > 1
ExcludeGuard(rules, queue) == Len(rules) > 0 /\ Len(queue) > 1

\* Lines 188-218.  A KeyError leaves the list as it was: the removals of
\* lines 217-218 come after the loop that can raise.
_exclude_configs(queue, rules) ==
    IF ExcludeGuard(rules, queue)
    THEN LET outcome == [i \in 1..Len(queue) |-> MatchAnyRule(queue[i], rules, 1)]
             RECURSIVE ToRemove(_)
             ToRemove(n) ==
                 IF n = 0 THEN <<>>
                 ELSE IF outcome[n] = "matched"
                      THEN Append(ToRemove(n - 1), queue[n])
                      ELSE ToRemove(n - 1)
         IN  IF \E i \in 1..Len(queue) : outcome[i] = "KeyError"
             THEN [raised |-> TRUE, run_configs |-> queue]
             ELSE [raised |-> FALSE,
                   run_configs |-> RemoveEach(queue, ToRemove(Len(queue)), 1)]
    ELSE [raised |-> FALSE, run_configs |-> queue]

----------------------------------------------------------------------------
(* ConfigReader.gen_run_configs and remove_completed_runs. *)

\* random.shuffle(self.run_configs): the list in any order.
Shuffle(queue) ==
    {[i \in 1..Len(queue) |-> queue[p[i]]] :
        p \in {q \in [1..Len(queue) -> 1..Len(queue)] :
                  \A a, b \in 1..Len(queue) : a # b => q[a] # q[b]}}

\* The fields of a reader that gen_run_configs reads and writes.
Reader(queue, ref, pk, gen, exc) ==
    [run_configs |-> queue, run_configs_ref |-> ref, permutable_keys |-> pk,
     _generated |-> gen, raised |-> exc]

\* A plausible slip in lines 67-71: the memo flag is not consulted, and every
\* call expands, excludes and shuffles again.
gen_run_configs_unguarded(d, rules, reader) ==
    LET e == _gen_run_configs(d, reader.permutable_keys)
        x == _exclude_configs(e.result, rules)
    IN  IF x.raised
        THEN {Reader(e.result, reader.run_configs_ref + 1, e.permutable_keys,
                     FALSE, TRUE)}
        ELSE {Reader(q, reader.run_configs_ref + 1, e.permutable_keys,
                     TRUE, FALSE) : q \in Shuffle(x.run_configs)}

\* Lines 60-73: the readers a call of gen_run_configs may leave.  The first
\* call binds run_configs to a new list (line 68), filters it (line 69),
\* shuffles it in place (line 70) and sets the flag (line 71); a KeyError of
\* line 69 leaves the unfiltered list bound and the flag unset.  Later calls
\* change nothing.
gen_run_configs(d, rules, reader) ==
    IF ~reader._generated
    THEN LET e == _gen_run_configs(d, reader.permutable_keys)
             x == _exclude_configs(e.result, rules)
         IN  IF x.raised
             THEN {Reader(e.result, reader.run_configs_ref + 1,
                          e.permutable_keys, FALSE, TRUE)}
             ELSE {Reader(q, reader.run_configs_ref + 1, e.permutable_keys,
                          TRUE, FALSE) : q \in Shuffle(x.run_configs)}
    ELSE {[reader EXCEPT !.raised = FALSE]}

RECURSIVE MatchRunWithMeta(_, _, _, _)
\* A plausible slip in line 175: the key "meta" is compared like any other.
MatchRunWithMeta(config, run_dict, d, i) ==
    IF i > Len(d) THEN "matched"
    ELSE IF d[i].key \notin DOMAIN run_dict THEN "KeyError"
    ELSE IF run_dict[d[i].key] # config[d[i].key] THEN "unmatched"
    ELSE MatchRunWithMeta(config, run_dict, d, i + 1)

RECURSIVE MatchRun(_, _, _, _)
\* Lines 174-179, from the i-th item of config on (a RunConfig's items come
\* in the document's key order, the order they were inserted in): the key
\* "meta" is skipped, run_dict[key] raises KeyError for a key the row lacks.
MatchRun(config, run_dict, d, i) ==
    IF i > Len(d) THEN "matched"
    ELSE IF d[i].key \in {"meta"} THEN MatchRun(config, run_dict, d, i + 1)
    ELSE IF d[i].key \notin DOMAIN run_dict THEN "KeyError"
    ELSE IF run_dict[d[i].key] # config[d[i].key] THEN "unmatched"
    ELSE MatchRun(config, run_dict, d, i + 1)

RECURSIVE RemoveAllMatches(_, _, _, _)
\* A plausible slip in lines 181-186: without the break every matching
\* RunConfig is removed.
RemoveAllMatches(queue, run_dict, d, n) ==
    IF n > Len(queue) THEN [raised |-> FALSE, run_configs |-> <<>>]
    ELSE LET m    == MatchRun(queue[n], run_dict, d, 1)
             rest == RemoveAllMatches(queue, run_dict, d, n + 1)
         IN  IF m = "KeyError" THEN [raised |-> TRUE, run_configs |-> queue]
             ELSE IF rest.raised THEN rest
             ELSE IF m = "matched" THEN rest
             ELSE [raised |-> FALSE, run_configs |-> <<queue[n]>> \o rest.run_configs]

RECURSIVE RemoveFirstMatch(_, _, _, _)
\* Lines 173-186, from the n-th RunConfig of the queue on: the first match is
\* removed with list.remove and the loop ends; a KeyError met before a match
\* leaves the list as it was.
RemoveFirstMatch(queue, run_dict, d, n) ==
    IF n > Len(queue) THEN [raised |-> FALSE, run_configs |-> queue]
    ELSE LET m == MatchRun(queue[n], run_dict, d, 1)
         IN  IF m = "KeyError" THEN [raised |-> TRUE, run_configs |-> queue]
             ELSE IF m = "matched"
                  THEN [raised |-> FALSE, run_configs |-> ListRemove(queue, queue[n])]
                  ELSE RemoveFirstMatch(queue, run_dict, d, n + 1)

\* Lines 164-186: the outcomes of a call of remove_completed_runs, each the
\* reader as line 171 (the call of gen_run_configs) leaves it and the reader
\* as the call leaves it.  What gen_run_configs raises propagates.
remove_completed_runs(d, rules, reader, run_dict) ==
    {[generated |-> g,
      left |-> IF g.raised THEN g
               ELSE LET r == RemoveFirstMatch(g.run_configs, run_dict, d, 1)
                    IN  [g EXCEPT !.run_configs = r.run_configs,
                                  !.raised = r.raised]] :
     g \in gen_run_configs(d, rules, reader)}

----------------------------------------------------------------------------
(* Documents. *)

\* The values a key of a document may hold.
DocValues ==
    {Scalar(s) : s \in Scalars} \cup {Array(a) : a \in SeqsUpTo(Scalars, MaxLen)}

\* Documents in which data_dir, batch_size and epochs hold any value.
Documents ==
    {<<[key |-> "meta", value |-> Scalar(MetaValue)],
       [key |-> "data_name", value |-> Scalar(NameValue)],
       [key |-> "data_dir", value |-> v1],
       [key |-> "batch_size", value |-> v2],
       [key |-> "epochs", value |-> v3]>> : v1 \in DocValues, v2 \in DocValues, v3 \in DocValues}

Keys(d) == {d[i].key : i \in 1..Len(d)}

\* The value the document holds for key k.
ValueOf(d, k) == d[CHOOSE i \in 1..Len(d) : d[i].key = k].value

----------------------------------------------------------------------------
(* SpecExpand: _gen_run_configs applied to every document. *)

InitExpand ==
    /\ data \in Documents
    /\ exclude_configs = <<>>
    /\ run_configs = <<>>
    /\ run_configs_ref = 0
    /\ permutable_keys = {}
    /\ _generated = FALSE
    /\ raised = FALSE
    /\ stage = "loaded"
    /\ expanded = <<>>
    /\ calls = 0
    /\ ret_ref = 0
    /\ last2 = <<>>
    /\ NoWatcher

\* Line 68: self.run_configs = self._gen_run_configs(self.data)
Expand ==
    /\ stage = "loaded"
    /\ LET r == _gen_run_configs(data, permutable_keys)
       IN  /\ run_configs' = r.result
           /\ expanded' = r.result
           /\ permutable_keys' = r.permutable_keys
    /\ run_configs_ref' = run_configs_ref + 1
    /\ stage' = "expanded"
    /\ UNCHANGED <<data, exclude_configs, _generated, raised, historyVars,
                   watcherVars>>

NextExpand == Expand

SpecExpand == InitExpand /\ [][NextExpand]_vars

----------------------------------------------------------------------------
(* Claims about expansion, checked under SpecExpand. *)

\* The choices of one candidate position per key of document d.
Choices(d) ==
    {c \in [1..Len(d) -> 1..(MaxLen + 1)] :
        \A i \in 1..Len(d) : c[i] <= Len(d[i].value.vals)}

\* The RunConfig of a choice: every key with the chosen candidate.
ConfigOf(d, c) ==
    [k \in Keys(d) |->
        LET i == CHOOSE j \in 1..Len(d) : d[j].key = k
        IN  d[i].value.vals[c[i]]]

\* The keys of d that hold an array.
ArrayKeys(d) == {d[i].key : i \in {j \in 1..Len(d) : d[j].value.isList}}

\* C1: expansion yields exactly one RunConfig per element of the cartesian
\* product of the per-key candidates (an array gives its elements, a scalar
\* itself), each assigning every key of the document one value; a document
\* of scalars yields one RunConfig, and a document whose only array K has
\* n >= 1 elements yields n RunConfigs that agree on every key but K.
C1_CartesianProduct ==
    stage = "expanded" =>
        /\ Len(run_configs) = Cardinality(Choices(data))
        /\ \A i \in 1..Len(run_configs) :
              /\ DOMAIN run_configs[i] = Keys(data)
              /\ \E c \in Choices(data) : run_configs[i] = ConfigOf(data, c)
        /\ \A c \in Choices(data) :
              Count(run_configs, ConfigOf(data, c))
                  = Cardinality({g \in Choices(data) :
                                    ConfigOf(data, g) = ConfigOf(data, c)})
        /\ (ArrayKeys(data) = {} => Len(run_configs) = 1)
        /\ \A K \in Keys(data) :
              (ArrayKeys(data) = {K} /\ Len(ValueOf(data, K).vals) >= 1) =>
                  /\ Len(run_configs) = Len(ValueOf(data, K).vals)
                  /\ \A i, j \in 1..Len(run_configs) :
                        \A k \in Keys(data) \ {K} :
                            run_configs[i][k] = run_configs[j][k]
                  /\ \A i \in 1..Len(run_configs) :
                        run_configs[i][K] = ValueOf(data, K).vals[i]

\* C1's case: two arrays of two elements each and a scalar have been
\* expanded into the four RunConfigs of their product.
C1_Witness ==
    /\ stage = "expanded"
    /\ ValueOf(data, "data_dir") = Array(<<8, 16>>)
    /\ ValueOf(data, "batch_size") = Scalar(8)
    /\ ValueOf(data, "epochs") = Array(<<16, 8>>)
    /\ Len(run_configs) = 4

\* Whether some key of d holds an empty array.
HasEmptyArray(d) ==
    \E i \in 1..Len(d) : d[i].value.isList /\ Len(d[i].value.vals) = 0

\* C2: a document in which any key holds an empty array expands to zero
\* RunConfigs, whatever the other keys hold and wherever that key sits.
C2_EmptyArrayYieldsNothing ==
    (stage = "expanded" /\ HasEmptyArray(data)) => run_configs = <<>>

\* C2's case: the empty array is the last key, after a two-element array,
\* and the expansion is empty.
C2_Witness ==
    /\ stage = "expanded"
    /\ ValueOf(data, "data_dir") = Array(<<8, 16>>)
    /\ ValueOf(data, "epochs") = Array(<<>>)
    /\ run_configs = <<>>

\* The keys expansion visits: those with no empty array before them.
VisitedKeys(d) ==
    {d[i].key : i \in {j \in 1..Len(d) :
        \A h \in 1..(j - 1) : ~(d[h].value.isList /\ Len(d[h].value.vals) = 0)}}

----------------------------------------------------------------------------
(* SpecExclude: lines 68-69 of gen_run_configs, expansion then exclusion,   *)
(* for every document and every list of rules of the bounds.                *)

\* Most rules in exclude_configs.
MaxRules == 2

\* Documents in which batch_size and epochs hold any value.
ExcludeDocuments ==
    {<<[key |-> "meta", value |-> Scalar(MetaValue)],
       [key |-> "data_name", value |-> Scalar(NameValue)],
       [key |-> "data_dir", value |-> Scalar(NameValue)],
       [key |-> "batch_size", value |-> v2],
       [key |-> "epochs", value |-> v3]>> : v2 \in DocValues, v3 \in DocValues}

\* The rules: the empty rule, rules over keys of the document, and rules
\* that name "lr", a key no document has.
ExcludeRules ==
    { <<>>,
      <<[key |-> "batch_size", value |-> 16]>>,
      <<[key |-> "epochs", value |-> 8]>>,
      <<[key |-> "batch_size", value |-> 8], [key |-> "epochs", value |-> 16]>>,
      <<[key |-> "lr", value |-> 8]>>,
      <<[key |-> "batch_size", value |-> 16], [key |-> "lr", value |-> 8]>> }

InitExclude ==
    /\ data \in ExcludeDocuments
    /\ exclude_configs \in SeqsUpTo(ExcludeRules, MaxRules)
    /\ run_configs = <<>>
    /\ run_configs_ref = 0
    /\ permutable_keys = {}
    /\ _generated = FALSE
    /\ raised = FALSE
    /\ stage = "loaded"
    /\ expanded = <<>>
    /\ calls = 0
    /\ ret_ref = 0
    /\ last2 = <<>>
    /\ NoWatcher

\* Line 69: self._exclude_configs()
ExcludeConfigs ==
    /\ stage = "expanded"
    /\ LET r == _exclude_configs(run_configs, exclude_configs)
       IN  /\ run_configs' = r.run_configs
           /\ raised' = r.raised
    /\ stage' = "excluded"
    /\ UNCHANGED <<data, exclude_configs, run_configs_ref, permutable_keys,
                   _generated, expanded, historyVars, watcherVars>>

NextExclude == Expand \/ ExcludeConfigs

SpecExclude == InitExclude /\ [][NextExclude]_vars

\* A RunConfig matches a rule iff every key of the rule is in the RunConfig
\* with an equal value.
Matches(run_config, rule) ==
    \A i \in 1..Len(rule) :
        /\ rule[i].key \in DOMAIN run_config
        /\ run_config[rule[i].key] = rule[i].value

MatchesSome(run_config, rules) ==
    \E j \in 1..Len(rules) : Matches(run_config, rules[j])

\* The orderings of a list.
Orderings(seq) ==
    {[i \in 1..Len(seq) |-> seq[p[i]]] :
        p \in {q \in [1..Len(seq) -> 1..Len(seq)] :
                  \A a, b \in 1..Len(seq) : a # b => q[a] # q[b]}}

\* The RunConfigs of queue that match no rule, in queue order.
Survivors(queue, rules) ==
    LET Keep(run_config) == ~MatchesSome(run_config, rules)
    IN  SelectSeq(queue, Keep)

\* C4 as stated: with at least one rule and more than one expanded entry,
\* exclusion leaves exactly the RunConfigs that match no rule and the
\* outcome is the same for every ordering of the rules.
C4_AsStated ==
    (stage = "excluded" /\ Len(exclude_configs) > 0 /\ Len(expanded) > 1) =>
        /\ ~raised
        /\ run_configs = Survivors(expanded, exclude_configs)
        /\ \A o \in Orderings(exclude_configs) :
              _exclude_configs(expanded, o)
                  = _exclude_configs(expanded, exclude_configs)

\* The part of C4 that the code keeps: when every key the rules name is a
\* key of the document, no KeyError can be raised and exclusion leaves
\* exactly the RunConfigs that match no rule, whatever the rule order.
ExclusionOverDocumentKeys ==
    (/\ stage = "excluded" /\ Len(exclude_configs) > 0 /\ Len(expanded) > 1
     /\ \A j \in 1..Len(exclude_configs) :
           \A i \in 1..Len(exclude_configs[j]) :
               exclude_configs[j][i].key \in Keys(data)) =>
        /\ ~raised
        /\ run_configs = Survivors(expanded, exclude_configs)
        /\ \A o \in Orderings(exclude_configs) :
              _exclude_configs(expanded, o)
                  = _exclude_configs(expanded, exclude_configs)

\* C5: exclusion never removes the sole entry of a queue of length 1,
\* whatever the rules; with zero rules the queue is unchanged whatever its
\* length.
C5_SoleEntryKept ==
    stage = "excluded" =>
        /\ (Len(expanded) = 1 => (run_configs = expanded /\ ~raised))
        /\ (Len(exclude_configs) = 0 => (run_configs = expanded /\ ~raised))

\* C5's case: a queue of one entry that a rule matches has been through
\* exclusion and still holds it.
C5_Witness ==
    /\ stage = "excluded"
    /\ Len(expanded) = 1
    /\ MatchesSome(expanded[1], exclude_configs)
    /\ run_configs = expanded

----------------------------------------------------------------------------
(* SpecReader: one ConfigReader after __init__ (lines 56-58), and calls of  *)
(* gen_run_configs and remove_completed_runs on it in any order.            *)

\* Most calls made on the reader.
MaxCalls == 4

\* Most RunConfigs a document of SpecReader expands to.
MaxQueue == 3

\* The documents whose expansion has at most MaxQueue entries.
ReaderDocuments ==
    {d \in ExcludeDocuments : Cardinality(Choices(d)) <= MaxQueue}

\* The lists of rules: none, one that names a key of the document, one that
\* names a key no document has.
ReaderRules ==
    { <<>>,
      << <<[key |-> "batch_size", value |-> 16]>> >>,
      << <<[key |-> "lr", value |-> 8]>> >> }

\* The rows of the run history: a value for every key but "meta", and one
\* row that lacks "epochs".
ReaderRows ==
    {("data_name" :> NameValue) @@ ("data_dir" :> NameValue)
         @@ ("batch_size" :> b) @@ ("epochs" :> e) : b \in Scalars, e \in Scalars}
    \cup {("data_name" :> NameValue) @@ ("data_dir" :> NameValue)
              @@ ("batch_size" :> 8)}

\* Lines 56-58.
InitReader ==
    /\ data \in ReaderDocuments
    /\ exclude_configs \in ReaderRules
    /\ run_configs = <<>>
    /\ run_configs_ref = 0
    /\ permutable_keys = {}
    /\ _generated = FALSE
    /\ raised = FALSE
    /\ stage = "reader"
    /\ expanded = <<>>
    /\ calls = 0
    /\ ret_ref = 0
    /\ last2 = <<>>
    /\ NoWatcher

Self == Reader(run_configs, run_configs_ref, permutable_keys, _generated, raised)

\* The reader's fields become those of r.
Becomes(r) ==
    /\ run_configs' = r.run_configs
    /\ run_configs_ref' = r.run_configs_ref
    /\ permutable_keys' = r.permutable_keys
    /\ _generated' = r._generated
    /\ raised' = r.raised

\* A call of gen_run_configs (lines 60-73); ret_ref is the list it returns.
GenRunConfigs ==
    /\ stage = "reader"
    /\ calls < MaxCalls
    /\ \E r \in gen_run_configs(data, exclude_configs, Self) :
          /\ Becomes(r)
          /\ ret_ref' = IF r.raised THEN ret_ref ELSE r.run_configs_ref
    /\ calls' = calls + 1
    /\ UNCHANGED <<data, exclude_configs, stage, expanded, last2, watcherVars>>

\* A call of remove_completed_runs (lines 164-186) with a row of the history.
RemoveCompletedRuns ==
    /\ stage = "reader"
    /\ calls < MaxCalls
    /\ \E run_dict \in ReaderRows :
       \E c \in remove_completed_runs(data, exclude_configs, Self, run_dict) :
          LET entry == [row |-> run_dict, before |-> c.generated.run_configs,
                        after |-> c.left.run_configs, raised |-> c.left.raised,
                        at |-> calls]
          IN  /\ Becomes(c.left)
              /\ last2' = IF Len(last2) < 2 THEN Append(last2, entry)
                          ELSE <<last2[2], entry>>
    /\ calls' = calls + 1
    /\ UNCHANGED <<data, exclude_configs, stage, expanded, ret_ref, watcherVars>>

NextReader == GenRunConfigs \/ RemoveCompletedRuns

SpecReader == InitReader /\ [][NextReader]_vars

\* Whether a RunConfig equals a history row on every key but "meta".
EqualsRow(config, row) ==
    \A k \in DOMAIN config \ {"meta"} : k \in DOMAIN row /\ row[k] = config[k]

\* The number of RunConfigs of queue that equal the row.
MatchCount(queue, row) ==
    Cardinality({i \in 1..Len(queue) : EqualsRow(queue[i], row)})

\* Two calls of remove_completed_runs in a row with the same history row,
\* the first of which raised nothing.
AppliedTwice ==
    /\ Len(last2) = 2
    /\ last2[1].row = last2[2].row
    /\ ~last2[1].raised

SameOrOneLess(short, long) ==
    \/ short = long
    \/ \E i \in 1..Len(long) :
          short = [j \in 1..(Len(long) - 1) |->
                      IF j < i THEN long[j] ELSE long[j + 1]]

\* C7: once gen_run_configs has derived the queue, every later call returns
\* the same list object and the same PermutableKeys and leaves the list in
\* its order (nothing is expanded or shuffled again); no call on the reader
\* rebinds the list or adds to it, so that a RunConfig removed by
\* removeCompleted is in no queue a later gen_run_configs returns.
C7_Memoized ==
    [][_generated =>
          /\ _generated'
          /\ run_configs_ref' = run_configs_ref
          /\ permutable_keys' = permutable_keys
          /\ SameOrOneLess(run_configs', run_configs)
          /\ (ret_ref' # ret_ref => ret_ref = 0)
          /\ ((calls' > calls /\ last2' = last2) =>
                 (run_configs' = run_configs /\ ret_ref' = run_configs_ref))]_vars

\* C7's case: gen_run_configs returned the list, removeCompleted then took a
\* RunConfig out of it, and gen_run_configs was called again after that.
C7_Witness ==
    /\ _generated
    /\ Len(last2) = 1
    /\ last2[1].at >= 1
    /\ calls >= last2[1].at + 2
    /\ Len(last2[1].after) = Len(last2[1].before) - 1
    /\ ret_ref = run_configs_ref
    /\ run_configs = last2[1].after

----------------------------------------------------------------------------
(* ConfigWatcher.  The objects a ConfigReader(path) call builds live in     *)
(* readers, and config_reader holds the position of one of them: two        *)
(* references are the same object iff they are the same position.           *)

\* Most modifications of the configuration file.
MaxEdits == 2

\* The reader threads.
Consumers == {"c1"}

\* Line 43.
_REQUIRED_KEYS == {"data_name", "data_dir", "batch_size", "epochs"}

\* Lines 84-91: whether _validate_data returns (it raises ValueError for a
\* document that lacks a required key).
_validate_data(d) == \A key \in _REQUIRED_KEYS : key \in Keys(d)

\* A document of the watcher's file.
WatchDocument(batch_size, epochs) ==
    <<[key |-> "meta", value |-> Scalar(MetaValue)],
      [key |-> "data_name", value |-> Scalar(NameValue)],
      [key |-> "data_dir", value |-> Scalar(NameValue)],
      [key |-> "batch_size", value |-> batch_size],
      [key |-> "epochs", value |-> epochs]>>

\* What the file may hold: a sweep of two runs, the same sweep with a rule
\* that names a key no RunConfig has, and a document without the required
\* key "epochs".
FileContents ==
    { [data |-> WatchDocument(Array(<<8, 16>>), Scalar(8)), exclude_configs |-> <<>>],
      [data |-> WatchDocument(Array(<<8, 16>>), Scalar(8)),
       exclude_configs |-> << <<[key |-> "lr", value |-> 8]>> >>],
      [data |-> SubSeq(WatchDocument(Scalar(8), Scalar(8)), 1, 4),
       exclude_configs |-> <<>>] }

\* The rows the run history may gain, each once: the run with batch_size 8,
\* one of the two runs of the sweep.
WatchRows ==
    {("data_name" :> NameValue) @@ ("data_dir" :> NameValue)
         @@ ("batch_size" :> 8) @@ ("epochs" :> 8)}

\* Lines 46-58: the object ConfigReader(path) builds from the file's content;
\* source (history) is the modification time of the content it read.
NewReader(content, mtime) ==
    [data |-> content.data, exclude_configs |-> content.exclude_configs,
     fields |-> Reader(<<>>, 0, {}, FALSE, FALSE), source |-> mtime]

RECURSIVE RemoveRows(_, _, _, _, _)
\* Lines 266-268, from the i-th row on: remove_completed_runs once per row;
\* the first call that raises ends the loop.
RemoveRows(d, rules, reader, rows, i) ==
    IF i > Len(rows) THEN {reader}
    ELSE UNION {IF c.left.raised THEN {c.left}
                ELSE RemoveRows(d, rules, c.left, rows, i + 1) :
                c \in remove_completed_runs(d, rules, reader, rows[i])}

\* Lines 257-268: the readers ConfigWatcher._remove_completed_runs may leave.
_remove_completed_runs(d, rules, reader, history) ==
    UNION {IF g.raised \/ ~history.exists THEN {g}
           ELSE RemoveRows(d, rules, g, history.rows, 1) :
           g \in gen_run_configs(d, rules, reader)}

NewConsumer == [pc |-> "idle", pending_reset |-> FALSE, seen |-> 0, got |-> 0,
                observed |-> 0]

InitWatcher ==
    /\ data = <<>> /\ exclude_configs = <<>> /\ run_configs = <<>>
    /\ run_configs_ref = 0 /\ permutable_keys = {} /\ _generated = FALSE
    /\ raised = FALSE /\ stage = "watcher" /\ expanded = <<>>
    /\ calls = 0 /\ ret_ref = 0 /\ last2 = <<>>
    /\ file_doc \in {c \in FileContents : _validate_data(c.data)}
    /\ file_mtime = 1
    /\ run_data = [exists |-> FALSE, rows |-> <<>>]
    /\ readers = <<>>
    /\ config_reader = 0
    /\ flagged = FALSE
    /\ _mtime = 0
    /\ _running = FALSE
    /\ _config_lock = "free"
    /\ _event = FALSE
    /\ main_pc = "load"
    /\ pc = "not_started"
    /\ consumer = [c \in Consumers |-> NewConsumer]
    /\ edits = 0
    /\ flag_sets = 0
    /\ flag_by = 0
    /\ last_compare = "none"

\* The variables of the specifications of the reader alone.
idleVars == <<engineVars, historyVars>>

envVars == <<file_doc, file_mtime, run_data, edits>>

(* The environment. *)

\* An editor rewrites the configuration file.
EditFile ==
    /\ edits < MaxEdits
    /\ file_doc' \in FileContents
    /\ file_mtime' = file_mtime + 1
    /\ edits' = edits + 1
    /\ UNCHANGED <<idleVars, run_data, readers, config_reader, flagged, _mtime, _running,
                   _config_lock, _event, main_pc, pc, consumer, flag_sets,
                   flag_by, last_compare>>

\* A finished run is appended to run_data.csv.
AppendHistory ==
    /\ \E row \in WatchRows :
          /\ \A i \in 1..Len(run_data.rows) : run_data.rows[i] # row
          /\ run_data' = [exists |-> TRUE, rows |-> Append(run_data.rows, row)]
    /\ UNCHANGED <<idleVars, file_doc, file_mtime, readers, config_reader, flagged, _mtime,
                   _running, _config_lock, _event, main_pc, pc, consumer, edits,
                   flag_sets, flag_by, last_compare>>

(* The constructing thread. *)

\* ConfigReader(filename), lines 46-58: the initial, explicit load.
MainLoad ==
    /\ main_pc = "load"
    /\ IF _validate_data(file_doc.data)
       THEN /\ readers' = <<NewReader(file_doc, file_mtime)>>
            /\ main_pc' = "watcher"
       ELSE /\ readers' = readers
            /\ main_pc' = "failed"
    /\ UNCHANGED <<idleVars, file_doc, file_mtime, run_data, config_reader, flagged, _mtime,
                   _running, _config_lock, _event, pc, consumer, edits, flag_sets,
                   flag_by, last_compare>>

\* ConfigWatcher.__init__, lines 224-233: the reader is bound and reconciled.
WatcherInit ==
    /\ main_pc = "watcher"
    /\ config_reader' = 1
    /\ flagged' = FALSE
    /\ \E r \in _remove_completed_runs(readers[1].data, readers[1].exclude_configs,
                                       readers[1].fields, run_data) :
          /\ readers' = [readers EXCEPT ![1].fields = r]
          /\ main_pc' = IF r.raised THEN "failed" ELSE "mtime"
    /\ UNCHANGED <<idleVars, file_doc, file_mtime, run_data, _mtime, _running, _config_lock,
                   _event, pc, consumer, edits, flag_sets, flag_by, last_compare>>

\* ConfigWatcher.__init__, lines 235-238.
WatcherInitMtime ==
    /\ main_pc = "mtime"
    /\ _mtime' = file_mtime
    /\ _running' = FALSE
    /\ _config_lock' = "free"
    /\ _event' = FALSE
    /\ main_pc' = "start"
    /\ UNCHANGED <<idleVars, file_doc, file_mtime, run_data, readers, config_reader, flagged,
                   pc, consumer, edits, flag_sets, flag_by, last_compare>>

\* Thread.start(): run() begins on the polling thread.
Start ==
    /\ main_pc = "start"
    /\ main_pc' = "started"
    /\ pc' = "run"
    /\ UNCHANGED <<idleVars, file_doc, file_mtime, run_data, readers, config_reader, flagged,
                   _mtime, _running, _config_lock, _event, consumer, edits,
                   flag_sets, flag_by, last_compare>>

\* Lines 279-282.
Stop ==
    /\ main_pc = "started"
    /\ _running' = FALSE
    /\ _event' = TRUE
    /\ UNCHANGED <<idleVars, file_doc, file_mtime, run_data, readers, config_reader, flagged,
                   _mtime, _config_lock, main_pc, pc, consumer, edits, flag_sets,
                   flag_by, last_compare>>

(* The polling thread: ConfigWatcher.run, lines 240-255. *)

\* Line 241.
PollRun ==
    /\ pc = "run"
    /\ _running' = TRUE
    /\ pc' = "while"
    /\ UNCHANGED <<idleVars, envVars, readers, config_reader, flagged, _mtime, _config_lock,
                   _event, main_pc, consumer, flag_sets, flag_by, last_compare>>

\* Line 242: while self._running
PollWhile ==
    /\ pc = "while"
    /\ pc' = IF _running THEN "wait" ELSE "exited"
    /\ UNCHANGED <<idleVars, envVars, readers, config_reader, flagged, _mtime, _running,
                   _config_lock, _event, main_pc, consumer, flag_sets, flag_by,
                   last_compare>>

\* Line 243: self._event.wait(self.refresh_rate) returns, the event being set
\* or the interval over.
PollWait ==
    /\ pc = "wait"
    /\ pc' = "compare"
    /\ UNCHANGED <<idleVars, envVars, readers, config_reader, flagged, _mtime, _running,
                   _config_lock, _event, main_pc, consumer, flag_sets, flag_by,
                   last_compare>>

\* A plausible slip in line 245: the comparison is dropped and every poll
\* reloads.
PollCompareAlways ==
    /\ pc = "compare"
    /\ pc' = "store"
    /\ last_compare' = "changed"
    /\ UNCHANGED <<idleVars, envVars, readers, config_reader, flagged, _mtime, _running,
                   _config_lock, _event, main_pc, consumer, flag_sets, flag_by>>

\* Line 245: if self._mtime != os.path.getmtime(self.config_path)
PollCompare ==
    /\ pc = "compare"
    /\ IF _mtime # file_mtime
       THEN /\ pc' = "store"
            /\ last_compare' = "changed"
       ELSE /\ pc' = "while"
            /\ last_compare' = "equal"
    /\ UNCHANGED <<idleVars, envVars, readers, config_reader, flagged, _mtime, _running,
                   _config_lock, _event, main_pc, consumer, flag_sets, flag_by>>

\* A plausible slip: the flag is raised when the change is detected, before
\* the new reader is published.
PollStoreAndFlag ==
    /\ pc = "store"
    /\ _mtime' = file_mtime
    /\ flagged' = TRUE
    /\ flag_sets' = flag_sets + 1
    /\ flag_by' = Len(readers) + 1
    /\ pc' = "lock"
    /\ UNCHANGED <<idleVars, envVars, readers, config_reader, _running, _config_lock, _event,
                   main_pc, consumer, last_compare>>

\* Line 249: self._mtime = os.path.getmtime(self.config_path)
PollStore ==
    /\ pc = "store"
    /\ _mtime' = file_mtime
    /\ pc' = "lock"
    /\ UNCHANGED <<idleVars, envVars, readers, config_reader, flagged, _running, _config_lock,
                   _event, main_pc, consumer, flag_sets, flag_by, last_compare>>

\* Line 251: with self._config_lock (entry)
PollLock ==
    /\ pc = "lock"
    /\ _config_lock = "free"
    /\ _config_lock' = "poller"
    /\ pc' = "construct"
    /\ UNCHANGED <<idleVars, envVars, readers, config_reader, flagged, _mtime, _running,
                   _event, main_pc, consumer, flag_sets, flag_by, last_compare>>

\* A plausible slip in line 252: the published reader is reloaded in place
\* and no new object is built.
PollConstructInPlace ==
    /\ pc = "construct"
    /\ IF _validate_data(file_doc.data)
       THEN /\ readers' = [readers EXCEPT ![config_reader] = NewReader(file_doc, file_mtime)]
            /\ _config_lock' = _config_lock
            /\ pc' = "reconcile"
       ELSE /\ readers' = readers
            /\ _config_lock' = "free"
            /\ pc' = "crashed"
    /\ UNCHANGED <<idleVars, envVars, config_reader, flagged, _mtime, _running, _event,
                   main_pc, consumer, flag_sets, flag_by, last_compare>>

\* A plausible slip in line 252: the new object is bound before its
\* document is validated, so a failed load leaves it published.
PollConstructBindsFirst ==
    /\ pc = "construct"
    /\ readers' = Append(readers, NewReader(file_doc, file_mtime))
    /\ config_reader' = Len(readers) + 1
    /\ IF _validate_data(file_doc.data)
       THEN /\ _config_lock' = _config_lock
            /\ pc' = "reconcile"
       ELSE /\ _config_lock' = "free"
            /\ pc' = "crashed"
    /\ UNCHANGED <<idleVars, envVars, flagged, _mtime, _running, _event, main_pc, consumer,
                   flag_sets, flag_by, last_compare>>

\* Line 252: self.config_reader = ConfigReader(self.config_path).  The
\* ValueError of line 87 leaves config_reader bound as it was, releases the
\* lock (the with statement) and ends run(): nothing in run() catches it.
PollConstruct ==
    /\ pc = "construct"
    /\ IF _validate_data(file_doc.data)
       THEN /\ readers' = Append(readers, NewReader(file_doc, file_mtime))
            /\ config_reader' = Len(readers) + 1
            /\ _config_lock' = _config_lock
            /\ pc' = "reconcile"
       ELSE /\ readers' = readers
            /\ config_reader' = config_reader
            /\ _config_lock' = "free"
            /\ pc' = "crashed"
    /\ UNCHANGED <<idleVars, envVars, flagged, _mtime, _running, _event, main_pc, consumer,
                   flag_sets, flag_by, last_compare>>

\* Line 253: self._remove_completed_runs(), and the end of the with block.
\* A KeyError (line 177 or 202) releases the lock and ends run().
PollReconcile ==
    /\ pc = "reconcile"
    /\ \E r \in _remove_completed_runs(readers[config_reader].data,
                                       readers[config_reader].exclude_configs,
                                       readers[config_reader].fields, run_data) :
          /\ readers' = [readers EXCEPT ![config_reader].fields = r]
          /\ pc' = IF r.raised THEN "crashed" ELSE "flag"
    /\ _config_lock' = "free"
    /\ UNCHANGED <<idleVars, envVars, config_reader, flagged, _mtime, _running, _event,
                   main_pc, consumer, flag_sets, flag_by, last_compare>>

\* Line 255: self.flagged = True
PollFlag ==
    /\ pc = "flag"
    /\ flagged' = TRUE
    /\ flag_sets' = flag_sets + 1
    /\ flag_by' = config_reader
    /\ pc' = "while"
    /\ UNCHANGED <<idleVars, envVars, readers, config_reader, _mtime, _running, _config_lock,
                   _event, main_pc, consumer, last_compare>>

(* The reader threads.  A consumer reads the flag; having read it true it    *)
(* clears it with reset_flagged; it calls get_config_reader when it likes.   *)

Constructed == main_pc \in {"start", "started"}

\* The consumer reads watcher.flagged.
ReadFlag(c) ==
    /\ Constructed
    /\ consumer[c].pc = "idle"
    /\ ~consumer[c].pending_reset
    /\ consumer' = [consumer EXCEPT ![c] =
          IF flagged
          THEN [@ EXCEPT !.pending_reset = TRUE, !.seen = flag_by, !.got = 0,
                         !.observed = @ + 1]
          ELSE @]
    /\ UNCHANGED <<idleVars, envVars, readers, config_reader, flagged, _mtime, _running,
                   _config_lock, _event, main_pc, pc, flag_sets, flag_by,
                   last_compare>>

\* Lines 270-271.
ResetFlagged(c) ==
    /\ consumer[c].pc = "idle"
    /\ consumer[c].pending_reset
    /\ flagged' = FALSE
    /\ consumer' = [consumer EXCEPT ![c].pending_reset = FALSE]
    /\ UNCHANGED <<idleVars, envVars, readers, config_reader, _mtime, _running, _config_lock,
                   _event, main_pc, pc, flag_sets, flag_by, last_compare>>

\* Line 274: with self._config_lock (entry)
GetLock(c) ==
    /\ Constructed
    /\ consumer[c].pc = "idle"
    /\ _config_lock = "free"
    /\ _config_lock' = c
    /\ consumer' = [consumer EXCEPT ![c].pc = "get"]
    /\ UNCHANGED <<idleVars, envVars, readers, config_reader, flagged, _mtime, _running,
                   _event, main_pc, pc, flag_sets, flag_by, last_compare>>

\* Lines 275-277: the reference is copied, the lock released, the copy
\* returned.
GetConfigReader(c) ==
    /\ consumer[c].pc = "get"
    /\ _config_lock' = "free"
    /\ consumer' = [consumer EXCEPT ![c].pc = "idle", ![c].got = config_reader]
    /\ UNCHANGED <<idleVars, envVars, readers, config_reader, flagged, _mtime, _running,
                   _event, main_pc, pc, flag_sets, flag_by, last_compare>>

NextWatcher ==
    \/ EditFile \/ AppendHistory
    \/ MainLoad \/ WatcherInit \/ WatcherInitMtime \/ Start \/ Stop
    \/ PollRun \/ PollWhile \/ PollWait \/ PollCompare \/ PollStore \/ PollLock
    \/ PollConstruct \/ PollReconcile \/ PollFlag
    \/ \E c \in Consumers :
          ReadFlag(c) \/ ResetFlagged(c) \/ GetLock(c) \/ GetConfigReader(c)

SpecWatcher == InitWatcher /\ [][NextWatcher]_vars

----------------------------------------------------------------------------
(* Claims about the watcher, checked under SpecWatcher. *)

\* The polling thread leaves line 245.
ComparesTimes == pc = "compare" /\ pc' # "compare"

\* The polling thread runs line 255.
SetsFlag == pc = "flag" /\ pc' # "flag"

\* Nothing is in progress: no reload, no clearing of a flag read true.
Quiescent ==
    /\ pc \in {"while", "wait", "compare"}
    /\ \A c \in Consumers : consumer[c].pc = "idle" /\ ~consumer[c].pending_reset

\* What C8 says of a poll iteration: one that finds the file modified goes on
\* to reload; one that completes its reload has published a new reader,
\* built from the file as it was at the detected modification or later, and
\* sets the flag; and nothing else sets the flag.
PublishesAndFlags ==
    /\ (ComparesTimes /\ _mtime # file_mtime) => pc' = "store"
    /\ SetsFlag =>
          /\ flagged'
          /\ config_reader = Len(readers)
          /\ config_reader > 1 /\ config_reader > flag_by
          /\ readers[config_reader].source >= _mtime
          /\ readers[config_reader].fields._generated
    /\ (~flagged /\ flagged') => SetsFlag

\* C8 as stated: a modification between polls makes the next poll publish a
\* new snapshot and set the flag; once cleared the flag stays false until
\* the next detected modification, and it is observed true exactly once per
\* detected change.
C8_AsStated ==
    [][/\ PublishesAndFlags
       /\ (Quiescent /\ ~flagged =>
              \A c \in Consumers : consumer[c].observed = flag_sets)']_vars

\* What does hold of the flag: a poll iteration publishes and flags as
\* above, and a consumer observes the flag true at most once per detected
\* change (changes detected before the consumer reads and clears the flag
\* are observed as one, or not at all when the clearing overtakes them).
FlagAtMostOncePerChange ==
    [][/\ PublishesAndFlags
       /\ (\A c \in Consumers : consumer[c].observed <= flag_sets)']_vars

\* C9: a poll iteration that finds the modification time equal to the last
\* observed one reloads nothing and leaves the flag and the published
\* reference as they are; get_config_reader returns the published reference;
\* so while the file is not modified the flag stays false and every call
\* returns the same object.
C9_UnchangedFile ==
    [][/\ (ComparesTimes /\ _mtime = file_mtime) =>
              /\ pc' = "while"
              /\ UNCHANGED <<flagged, config_reader, readers, _mtime>>
       /\ \A c \in Consumers :
              (consumer[c].pc = "get" /\ consumer'[c].pc = "idle") =>
                  consumer'[c].got = config_reader
       /\ (edits = 0 =>
              /\ ~flagged
              /\ config_reader \in {0, 1}
              /\ Len(readers) <= 1
              /\ \A c \in Consumers : consumer[c].got \in {0, 1})']_vars

\* C9's case: the running watcher has compared the times, found them equal
\* with the file never modified, and the consumer holds the reader the
\* watcher was constructed with.
C9_Witness ==
    /\ _running /\ pc = "wait" /\ last_compare = "equal"
    /\ edits = 0 /\ _mtime = file_mtime
    /\ ~flagged /\ config_reader = 1
    /\ \E c \in Consumers : consumer[c].got = 1 /\ consumer[c].pc = "idle"

\* C10: a consumer that has read the flag true and then called
\* get_config_reader holds the reader published by the reload that set the
\* flag it read, or a reader published later (readers are numbered in the
\* order they are built).
C10_PublishBeforeFlag ==
    \A c \in Consumers :
        (consumer[c].seen # 0 /\ consumer[c].got # 0) =>
            consumer[c].got >= consumer[c].seen

\* C10's case: the consumer read the flag set by the reload that published
\* the second reader and then obtained the third, published meanwhile.
C10_Witness ==
    \E c \in Consumers :
        /\ consumer[c].seen = 2
        /\ consumer[c].got = 3
        /\ consumer[c].pc = "idle"

\* C11 as stated: the flag is read and cleared atomically with respect to
\* the polling thread, so a clearing of the flag never erases a flag set by
\* a reload the clearing consumer did not observe: whenever the flag goes
\* from true to false, the reload that set it last is the one whose flag the
\* consumer read.
C11_AsStated ==
    [][(flagged /\ ~flagged') =>
          \E c \in Consumers :
              consumer[c].pending_reset /\ consumer[c].seen = flag_by]_vars

\* Line 252 raises: the reload fails while the new ConfigReader is built.
ConstructThrows == pc = "construct" /\ pc' = "crashed"

\* A reload has failed while constructing: run() has ended and the published
\* reader is one whose reconciliation completed.
FailedConstructing == pc = "crashed" /\ ~readers[config_reader].fields.raised

\* C12: a reload that throws while the new ConfigReader is constructed
\* leaves the published reference and every reader's queue as they were,
\* does not set the flag and releases the lock; from then on
\* get_config_reader returns that same reader with the same queue and the
\* flag is not set again.
C12_FailedReloadKeepsSnapshot ==
    [][/\ ConstructThrows =>
              /\ UNCHANGED <<config_reader, readers, flagged, flag_sets>>
              /\ _config_lock' = "free"
       /\ FailedConstructing =>
              /\ UNCHANGED <<config_reader, readers, flag_sets>>
              /\ _config_lock' # "poller"
              /\ \A c \in Consumers :
                     (consumer[c].pc = "get" /\ consumer'[c].pc = "idle") =>
                         consumer'[c].got = config_reader]_vars

\* C12's case: the file holds a document without a required key, the reload
\* of it has failed after an earlier reload succeeded, and a consumer holds
\* the lock inside get_config_reader, taken after the failure.
C12_Witness ==
    /\ FailedConstructing
    /\ ~_validate_data(file_doc.data)
    /\ config_reader = 2
    /\ \E c \in Consumers : _config_lock = c /\ consumer[c].pc = "get"

StoppedInLoop == _event /\ ~_running

\* C14 as stated: once stop() has been called while the loop sleeps, the
\* loop wakes, sees the Stopped state and exits: it does not go on to
\* compare the modification times, and so starts no reload.
C14_AsStated ==
    [][(StoppedInLoop /\ pc = "wait") => pc' \notin {"compare", "store"}]_vars

\* C15 as stated: stop() is terminal.  Once stop() has run, whenever it was
\* called, the watcher never returns to Running.
C15_AsStated ==
    [][(_event /\ ~_running) => ~_running']_vars

\* Whether a reader has been generated and holds no RunConfig equal to a row
\* of the history.
ReconciledAgainst(reader, history) ==
    /\ reader.fields._generated
    /\ ~reader.fields.raised
    /\ \A i \in 1..Len(history.rows), n \in 1..Len(reader.fields.run_configs) :
           ~EqualsRow(reader.fields.run_configs[n], history.rows[i])

\* A reader thread that calls get_config_reader now obtains config_reader.
Obtainable == Constructed /\ _config_lock # "poller"

\* The watcher ends a reconciliation pass, at construction or in a reload.
EndsReconciliation ==
    \/ main_pc = "watcher" /\ main_pc' = "mtime"
    \/ pc = "reconcile" /\ pc' # "reconcile"

\* C16 as stated: every reader obtainable through get_config_reader has been
\* fully reconciled.  A reconciliation pass leaves the published reader
\* generated and without a RunConfig equal to a row of the history it read
\* (the sweeps here have pairwise-distinct RunConfigs), with its whole sweep
\* when there is no history file, and raises nothing; and whenever a reader
\* can be obtained its reconciliation has completed.
C16_AsStated ==
    [][/\ EndsReconciliation =>
              /\ ReconciledAgainst(readers'[config_reader'], run_data)
              /\ ~run_data.exists =>
                     Len(readers'[config_reader'].fields.run_configs) = 2
       /\ (Obtainable =>
              /\ readers[config_reader].fields._generated
              /\ ~readers[config_reader].fields.raised)']_vars

\* What does hold of reconciliation: the same, for every pass that raises
\* nothing.
ReconciledUnlessRaised ==
    [][/\ (EndsReconciliation /\ ~readers'[config_reader'].fields.raised) =>
              /\ ReconciledAgainst(readers'[config_reader'], run_data)
              /\ ~run_data.exists =>
                     Len(readers'[config_reader'].fields.run_configs) = 2
       /\ (Obtainable /\ ~readers[config_reader].fields.raised =>
              readers[config_reader].fields._generated)']_vars

\* C17: a reader handed out by get_config_reader is never modified by the
\* watcher afterwards (its document, its queue and its other fields stay as
\* they are through every later reload, which builds a new object), and
\* get_config_reader never returns while the polling thread is constructing
\* or reconciling the reader it publishes.
C17_HandedOutNeverModified ==
    [][\A c \in Consumers :
          /\ consumer[c].got # 0 =>
                 readers'[consumer[c].got] = readers[consumer[c].got]
          /\ (consumer[c].pc = "get" /\ consumer'[c].pc = "idle") =>
                 pc \notin {"construct", "reconcile"}]_vars

\* C17's case: a consumer holds the reader the watcher was constructed with,
\* and a reload has since built, reconciled and published a second one.
C17_Witness ==
    /\ config_reader = 2 /\ flag_sets = 1 /\ pc = "while"
    /\ \E c \in Consumers : consumer[c].got = 1 /\ consumer[c].pc = "idle"

----------------------------------------------------------------------------
(* Further claims about the reader and about exclusion. *)

\* The queue without its first RunConfig equal to the row, if it has one.
WithoutFirstEqual(queue, row) ==
    IF \E i \in 1..Len(queue) : EqualsRow(queue[i], row)
    THEN LET first == CHOOSE i \in 1..Len(queue) :
                          /\ EqualsRow(queue[i], row)
                          /\ \A j \in 1..(i - 1) : ~EqualsRow(queue[j], row)
         IN  [j \in 1..(Len(queue) - 1) |->
                 IF j < first THEN queue[j] ELSE queue[j + 1]]
    ELSE queue

NamesAbsentKey(run_config, rules) ==
    \E j \in 1..Len(rules) : \E i \in 1..Len(rules[j]) :
        rules[j][i].key \notin DOMAIN run_config

\* C19 as stated: a rule that names a key absent from a RunConfig does not
\* match it.  With such a rule among the rules, exclusion completes without
\* error and every RunConfig that matches no rule is still in the queue, as
\* often as it was expanded.
C19_AsStated ==
    (/\ stage = "excluded"
     /\ \E n \in 1..Len(expanded) : NamesAbsentKey(expanded[n], exclude_configs)) =>
        /\ ~raised
        /\ \A n \in 1..Len(expanded) :
               ~MatchesSome(expanded[n], exclude_configs) =>
                   Count(run_configs, expanded[n]) = Count(expanded, expanded[n])

\* C20 as stated, in the form of what it requires at each poll: no
\* modification is missed, so a poll that finds the modification time equal
\* to the last observed one (and so reloads nothing, now and for as long as
\* the file stays as it is) finds the published reader derived from the
\* file's current version.
C20_AsStated ==
    [][(ComparesTimes /\ _mtime = file_mtime) =>
          readers[config_reader].source = file_mtime]_vars

============================================================================
